---- MODULE Spec2Model ----
(***************************************************************************)
(* Model of src/ph_diagram.py: class Acid (equilibrium constants, the      *)
(* distribution engine alpha / log_concentrations and the species labels   *)
(* returned by formulas).                                                  *)
(*                                                                         *)
(* Numbers.  The program computes in double precision; the model computes  *)
(* the same expressions in exact rational arithmetic, a rational being a   *)
(* reduced pair <<p, q>> with q > 0.  pH and pKa values are integers, so   *)
(* that 10**(-x) is the rational 1 / 10^x.  The pH grid of the program     *)
(* (0 to 14 in steps of 0.1) is the integer grid 0 .. MaxpH.               *)
(*                                                                         *)
(* Strings.  A string is a sequence of one-character strings, so that      *)
(* str.replace, f-string formatting and the typesetting of the naming      *)
(* service act on characters as they do in the program.                    *)
(***************************************************************************)
EXTENDS Integers, Sequences, FiniteSets, TLC

VARIABLES acid, op, arg, ret, raised, calls

vars == <<acid, op, arg, ret, raised, calls>>

\* ---------------------------------------------------------------- bounds
MaxN == 2
MaxpH == 2
MaxpKa == 2
MaxCa == 1

\* ------------------------------------------------- rational arithmetic
RECURSIVE GCD(_, _)
GCD(a, b) == IF b = 0 THEN a ELSE GCD(b, a % b)

Abs(a) == IF a < 0 THEN -a ELSE a

Rat(p, q) == LET g == GCD(Abs(p), q) IN <<p \div g, q \div g>>

Zero == Rat(0, 1)
One == Rat(1, 1)

RMul(x, y) ==
    LET g1 == GCD(Abs(x[1]), y[2])
        g2 == GCD(Abs(y[1]), x[2])
    IN  Rat((x[1] \div g1) * (y[1] \div g2), (x[2] \div g2) * (y[2] \div g1))

RDiv(x, y) == RMul(x, <<y[2], y[1]>>)

RAdd(x, y) ==
    LET g == GCD(x[2], y[2])
    IN  Rat(x[1] * (y[2] \div g) + y[1] * (x[2] \div g), (x[2] \div g) * y[2])

RECURSIVE RPow(_, _)
RPow(x, e) == IF e = 0 THEN One ELSE RMul(x, RPow(x, e - 1))

\* 10**(-x)
TenToMinus(x) == Rat(1, 10 ^ x)

\* ------------------------------------------------------- module globals
\* pH = np.arange(0, 14.1, 0.1)
pH == 0 .. MaxpH

\* hydronium_concentration = 10**(-pH), one value per grid point
hydronium_concentration == [p \in pH |-> TenToMinus(p)]

\* numpy broadcasting: array ** int, array * scalar, array / array, array + array
ArrPow(a, e) == [p \in pH |-> RPow(a[p], e)]
ArrScale(a, k) == [p \in pH |-> RMul(a[p], k)]
ArrDiv(a, b) == [p \in pH |-> RDiv(a[p], b[p])]
ArrAdd(a, b) == [p \in pH |-> RAdd(a[p], b[p])]

\* ------------------------------------------------------------ the object
NoAcid == [size |-> -1]

\* Acid.__init__(self, pKa, acid_concetration): no argument is validated
Acid_init(pKa, acid_concetration) ==
    [size |-> Len(pKa),
     pKa |-> pKa,
     Ka |-> [j \in 1 .. Len(pKa) |-> TenToMinus(pKa[j])],
     Ca |-> acid_concetration]

\* reduce(mul, seq, init): init * seq[0] * seq[1] * ...
RECURSIVE reduce_mul(_, _)
reduce_mul(seq, init) ==
    IF seq = <<>> THEN init
    ELSE reduce_mul(Tail(seq), ArrScale(init, Head(seq)))

\* Ka[1:i]: the slice starts one constant too late
KaSlice_skip_first(self, i) == SubSeq(self.Ka, 2, i)

\* Ka[0:i]
KaSlice(self, i) == SubSeq(self.Ka, 1, i)

\* range(0, self.pKa.size): the loop stops one species short
numerators_short(self) ==
    [k \in 1 .. self.size |->
        reduce_mul(KaSlice(self, k - 1),
                   ArrPow(hydronium_concentration, self.size - (k - 1)))]

\* the list built by the loop of alpha: entry i+1 is the numerator of species i
numerators(self) ==
    [k \in 1 .. self.size + 1 |->
        reduce_mul(KaSlice(self, k - 1),
                   ArrPow(hydronium_concentration, self.size - (k - 1)))]

\* sum(list): 0 + list[0] + list[1] + ...
SumStart == [p \in pH |-> Zero]

RECURSIVE sum_from(_, _)
sum_from(seq, acc) ==
    IF seq = <<>> THEN acc ELSE sum_from(Tail(seq), ArrAdd(acc, Head(seq)))

sum(seq) == sum_from(seq, SumStart)

\* numerator / numerators[0]: normalised by the first weight, not by the sum
alpha_by_first(self) ==
    LET nums == numerators(self)
    IN  [k \in 1 .. Len(nums) |-> ArrDiv(nums[k], nums[1])]

\* Acid.alpha
alpha(self) ==
    LET nums == numerators(self)
    IN  [k \in 1 .. Len(nums) |-> ArrDiv(nums[k], sum(nums))]

\* np.log10(x): symbolic for x > 0, -inf at 0, nan below 0
log10(x) ==
    IF x[1] > 0 THEN [log10 |-> x]
    ELSE IF x[1] = 0 THEN [log10 |-> "-inf"] ELSE [log10 |-> "nan"]

\* Acid.log_concentrations
log_concentrations(self) ==
    LET al == alpha(self)
    IN  [k \in 1 .. Len(al) |-> [p \in pH |-> log10(RMul(al[k][p], Rat(self.Ca, 1)))]]

\* ---------------------------------------------------------------- strings
DigitChars == <<"0", "1", "2", "3", "4", "5", "6", "7", "8", "9">>

IsDigit(c) == \E d \in 1 .. 10 : DigitChars[d] = c

DigitVal(c) == (CHOOSE d \in 1 .. 10 : DigitChars[d] = c) - 1

\* str(i) for i >= 0
RECURSIVE Digits(_)
Digits(i) ==
    IF i < 10 THEN <<DigitChars[i + 1]>>
    ELSE Digits(i \div 10) \o <<DigitChars[(i % 10) + 1]>>

\* str(i), the text an f-string substitutes for an int
Str(i) == IF i < 0 THEN <<"-">> \o Digits(-i) ELSE Digits(i)

\* int(s) for a sequence of digit characters
RECURSIVE ParseNat(_)
ParseNat(s) ==
    IF s = <<>> THEN 0
    ELSE 10 * ParseNat(SubSeq(s, 1, Len(s) - 1)) + DigitVal(s[Len(s)])

RECURSIVE Flatten(_)
Flatten(ss) == IF ss = <<>> THEN <<>> ELSE Head(ss) \o Flatten(Tail(ss))

\* s.replace('B', 'A')
replace_B_A(s) == [j \in 1 .. Len(s) |-> IF s[j] = "B" THEN "A" ELSE s[j]]

\* ----------------------------------------------------------------- labels
\* charge = number_of_species - (number_of_species + i): one too low
charge_off_by_one(number_of_species, i) == number_of_species - (number_of_species + i)

\* charge = number_of_species - (number_of_species + i - 1)
charge(number_of_species, i) == number_of_species - (number_of_species + i - 1)

\* magnitude before sign for charges below -1
charge_text_magnitude_first(c) ==
    IF c = 0 THEN <<>>
    ELSE IF c = -1 THEN <<"-">>
    ELSE Digits(-c) \o <<"-">>

\* the text of {charge}: '' for 0, '-' for -1, otherwise the int as str prints it
charge_text(c) ==
    IF c = 0 THEN <<>>
    ELSE IF c = -1 THEN <<"-">>
    ELSE Str(c)

\* the label appended for one species
label(idx, ctext) ==
    IF idx = 0 THEN <<"B">> \o ctext
    ELSE IF idx = 1 THEN <<"H", "B">> \o ctext
    ELSE <<"H">> \o Str(idx) \o <<"B">> \o ctext

\* idx = i - 1: the labels come out in reverse order
label_idx_reversed(number_of_species, i) == i - 1

\* idx = number_of_species - i
label_idx(number_of_species, i) == number_of_species - i

\* the list labels built by the loop of formulas
labels(self) ==
    LET number_of_species == Len(alpha(self))
    IN  [i \in 1 .. number_of_species |->
            label(label_idx(number_of_species, i),
                  charge_text(charge(number_of_species, i)))]

\* ------------------------------------------- the formula-naming service
\* position of the first '+' or '-' of a formula, Len + 1 when there is none
ChargeStart(f) ==
    IF \E j \in 1 .. Len(f) : f[j] \in {"+", "-"}
    THEN CHOOSE j \in 1 .. Len(f) :
            /\ f[j] \in {"+", "-"}
            /\ \A m \in 1 .. j - 1 : f[m] \notin {"+", "-"}
    ELSE Len(f) + 1

\* every maximal run of digits of the stoichiometric part goes between open and close
SubRuns(body, open, close) ==
    Flatten([j \in 1 .. Len(body) |->
        IF IsDigit(body[j])
        THEN (IF j = 1 \/ ~IsDigit(body[j - 1]) THEN open ELSE <<>>)
             \o <<body[j]>>
             \o (IF j = Len(body) \/ ~IsDigit(body[j + 1]) THEN close ELSE <<>>)
        ELSE <<body[j]>>])

\* the charge part: '-' is -1, '-k' is -k, '+' is 1, '+k' is k; printed magnitude first
SupCharge(chg, open, close) ==
    IF chg = <<>> THEN <<>>
    ELSE LET sign == chg[1]
             mag == IF Len(chg) = 1 THEN 1 ELSE ParseNat(Tail(chg))
         IN  open \o (IF mag = 1 THEN <<>> ELSE Digits(mag)) \o <<sign>> \o close

Typeset(f, subOpen, subClose, supOpen, supClose) ==
    LET c == ChargeStart(f)
    IN  SubRuns(SubSeq(f, 1, c - 1), subOpen, subClose)
        \o SupCharge(SubSeq(f, c, Len(f)), supOpen, supClose)

\* Substance.from_formula(formula).latex_name
latex_name(f) == Typeset(f, <<"_", "{">>, <<"}">>, <<"^", "{">>, <<"}">>)

\* Substance.from_formula(formula).html_name
html_name(f) ==
    Typeset(f, <<"<", "s", "u", "b", ">">>, <<"<", "/", "s", "u", "b", ">">>,
               <<"<", "s", "u", "p", ">">>, <<"<", "/", "s", "u", "p", ">">>)

\* ---------------------------------------------------------------- formulas
\* the final else returns the raw labels instead of raising
formulas_no_raise(self, output) ==
    LET ls == labels(self)
    IN  IF output = "latex"
        THEN [ret |-> [j \in 1 .. Len(ls) |-> replace_B_A(latex_name(ls[j]))],
              raised |-> "", calls |-> ls]
        ELSE IF output = "html"
        THEN [ret |-> [j \in 1 .. Len(ls) |-> replace_B_A(html_name(ls[j]))],
              raised |-> "", calls |-> ls]
        ELSE [ret |-> [j \in 1 .. Len(ls) |-> replace_B_A(ls[j])],
              raised |-> "", calls |-> <<>>]

\* every label is looked up in the naming service before output is examined
formulas_eager_lookup(self, output) ==
    LET ls == labels(self)
    IN  IF output = "raw"
        THEN [ret |-> [j \in 1 .. Len(ls) |-> replace_B_A(ls[j])],
              raised |-> "", calls |-> ls]
        ELSE IF output = "latex"
        THEN [ret |-> [j \in 1 .. Len(ls) |-> replace_B_A(latex_name(ls[j]))],
              raised |-> "", calls |-> ls]
        ELSE IF output = "html"
        THEN [ret |-> [j \in 1 .. Len(ls) |-> replace_B_A(html_name(ls[j]))],
              raised |-> "", calls |-> ls]
        ELSE [ret |-> <<>>, raised |-> "ValueError", calls |-> ls]

\* Acid.formulas(self, output): the returned list, the exception raised and the
\* formulas handed to Substance.from_formula, in call order
formulas(self, output) ==
    LET ls == labels(self)
    IN  IF output = "raw"
        THEN [ret |-> [j \in 1 .. Len(ls) |-> replace_B_A(ls[j])],
              raised |-> "", calls |-> <<>>]
        ELSE IF output = "latex"
        THEN [ret |-> [j \in 1 .. Len(ls) |-> replace_B_A(latex_name(ls[j]))],
              raised |-> "", calls |-> ls]
        ELSE IF output = "html"
        THEN [ret |-> [j \in 1 .. Len(ls) |-> replace_B_A(html_name(ls[j]))],
              raised |-> "", calls |-> ls]
        ELSE [ret |-> <<>>, raised |-> "ValueError", calls |-> <<>>]

\* ------------------------------------------------------------ state machine
Outputs == {"raw", "latex", "html", "bogus"}

RECURSIVE SeqsUpTo(_, _)
SeqsUpTo(S, n) ==
    IF n = 0 THEN {<<>>}
    ELSE LET shorter == SeqsUpTo(S, n - 1)
         IN  shorter \cup {Append(s, x) : s \in {t \in shorter : Len(t) = n - 1}, x \in S}

pKaInputs == SeqsUpTo(0 .. MaxpKa, MaxN)

CaInputs == -1 .. MaxCa

Init ==
    /\ acid = NoAcid
    /\ op = "import"
    /\ arg = ""
    /\ ret = <<>>
    /\ raised = ""
    /\ calls = <<>>

\* Acid(pKa, Ca)
Construct ==
    \E pKa \in pKaInputs, Ca \in CaInputs :
        /\ acid' = Acid_init(pKa, Ca)
        /\ op' = "__init__"
        /\ arg' = ""
        /\ ret' = <<>>
        /\ raised' = ""
        /\ calls' = <<>>

\* acid.alpha
Alpha ==
    /\ acid # NoAcid
    /\ op' = "alpha"
    /\ arg' = ""
    /\ ret' = alpha(acid)
    /\ raised' = ""
    /\ calls' = <<>>
    /\ UNCHANGED acid

\* acid.log_concentrations
LogConcentrations ==
    /\ acid # NoAcid
    /\ op' = "log_concentrations"
    /\ arg' = ""
    /\ ret' = log_concentrations(acid)
    /\ raised' = ""
    /\ calls' = <<>>
    /\ UNCHANGED acid

\* acid.formulas(output)
Formulas ==
    \E output \in Outputs :
        /\ acid # NoAcid
        /\ LET r == formulas(acid, output)
           IN  /\ ret' = r.ret
               /\ raised' = r.raised
               /\ calls' = r.calls
        /\ op' = "formulas"
        /\ arg' = output
        /\ UNCHANGED acid

Next == Construct \/ Alpha \/ LogConcentrations \/ Formulas

Spec == Init /\ [][Next]_vars

\* ------------------------------------------------------------- properties
Representations == {"raw", "latex", "html"}

RECURSIVE RSum(_)
RSum(seq) == IF seq = <<>> THEN Zero ELSE RAdd(Head(seq), RSum(Tail(seq)))

RECURSIVE RSumInt(_)
RSumInt(seq) == IF seq = <<>> THEN 0 ELSE Head(seq) + RSumInt(Tail(seq))

RECURSIVE RProd(_)
RProd(seq) == IF seq = <<>> THEN One ELSE RMul(Head(seq), RProd(Tail(seq)))

\* the characters of a label before its first 'A', and those after it
APos(l) == CHOOSE j \in 1 .. Len(l) : l[j] = "A" /\ \A m \in 1 .. j - 1 : l[m] # "A"
BeforeA(l) == SubSeq(l, 1, APos(l) - 1)
AfterA(l) == SubSeq(l, APos(l) + 1, Len(l))

\* the number of hydrogens a label names: none without a leading H, one for a bare
\* H, otherwise the number written after the H (inside the typesetting markup)
HydrogensOf(l) ==
    LET pre == BeforeA(l)
        ds == SelectSeq(pre, IsDigit)
    IN  IF pre = <<>> THEN 0
        ELSE IF ds = <<>> THEN 1
        ELSE ParseNat(ds)

\* the charge a raw label names: none, a bare '-', or '-' followed by the magnitude
ChargeOf(l) ==
    LET suf == AfterA(l)
    IN  IF suf = <<>> THEN 0
        ELSE IF suf = <<"-">> THEN -1
        ELSE -ParseNat(Tail(suf))

\* C1: for a positive total concentration, the n+1 fractions returned by alpha sum
\* to 1 at every point of the pH grid.
C1_AlphaSumsToOne ==
    (op = "alpha" /\ acid.Ca > 0) =>
        /\ Len(ret) = acid.size + 1
        /\ \A p \in pH : RSum([k \in 1 .. Len(ret) |-> ret[k][p]]) = One

C1_Witness ==
    /\ op = "alpha"
    /\ acid.Ca > 0
    /\ acid.size = 2
    /\ \E p \in pH : ret[1][p] # ret[2][p] /\ ret[2][p] # ret[3][p]

\* C2: no Acid object with a zero or negative total concentration is ever produced
\* (construction with such a concentration fails).
C2_NonPositiveConcentrationRejected ==
    acid # NoAcid => acid.Ca > 0

\* C3: formulas called with a representation other than raw, latex or html raises
\* and returns no label list, whatever n is.
C3_UnknownRepresentationRaises ==
    (op = "formulas" /\ arg \notin Representations) =>
        /\ raised = "ValueError"
        /\ ret = <<>>

C3_Witness ==
    /\ op = "formulas"
    /\ arg = "bogus"
    /\ acid.size = 2
    /\ raised = "ValueError"

\* C4 as stated: for n = 2, formulas('raw') returns H2A, HA-, A2- in that order.
C4_DiproticMagnitudeFirst ==
    (op = "formulas" /\ arg = "raw" /\ acid.size = 2) =>
        ret = << <<"H", "2", "A">>, <<"H", "A", "-">>, <<"A", "2", "-">> >>

\* C4 amended: for n = 2, formulas('raw') returns H2A, HA-, A-2 in that order: the
\* charge -2 is rendered as the integer prints, sign before magnitude.
C4_DiproticSignFirst ==
    (op = "formulas" /\ arg = "raw" /\ acid.size = 2) =>
        ret = << <<"H", "2", "A">>, <<"H", "A", "-">>, <<"A", "-", "2">> >>

C4_Witness ==
    /\ op = "formulas"
    /\ arg = "raw"
    /\ acid.size = 2
    /\ Len(ret) = 3

\* C5: formulas returns n+1 labels for every accepted representation, the label at
\* index k names the species with n-k hydrogens, which is the species whose weight
\* in alpha carries hydronium^(n-k); alpha and log_concentrations have n+1 entries.
C5_LabelsAlignedWithAlpha ==
    /\ (op = "formulas" /\ arg \in Representations) =>
        /\ raised = ""
        /\ Len(ret) = acid.size + 1
        /\ Len(alpha(acid)) = Len(ret)
        /\ \A k \in 0 .. acid.size :
            /\ HydrogensOf(ret[k + 1]) = acid.size - k
            /\ \A p \in pH :
                numerators(acid)[k + 1][p] =
                    RMul(RProd(SubSeq(acid.Ka, 1, k)),
                         RPow(hydronium_concentration[p], HydrogensOf(ret[k + 1])))
    /\ op \in {"alpha", "log_concentrations"} => Len(ret) = acid.size + 1

C5_Witness ==
    /\ op = "formulas"
    /\ arg = "html"
    /\ acid.size = 2
    /\ HydrogensOf(ret[1]) = 2
    /\ HydrogensOf(ret[3]) = 0

\* C6: where the hydronium concentration equals Ka[k], alpha[k] equals alpha[k+1];
\* for n = 1 both are one half.
C6_EqualFractionsAtpKa ==
    (op = "alpha" /\ acid.size >= 1) =>
        \A k \in 0 .. acid.size - 1 : \A p \in pH :
            hydronium_concentration[p] = acid.Ka[k + 1] =>
                /\ ret[k + 1][p] = ret[k + 2][p]
                /\ acid.size = 1 => ret[k + 1][p] = Rat(1, 2)

C6_Witness ==
    /\ op = "alpha"
    /\ acid.size = 2
    /\ acid.pKa = <<2, 1>>
    /\ ret[2][1] = ret[3][1]
    /\ ret[1][1] # ret[2][1]

\* C7: for an empty pKa sequence alpha returns one species whose fraction is 1 at
\* every point of the pH grid.
C7_NoStepsSingleSpecies ==
    (op = "alpha" /\ acid.size = 0) =>
        /\ Len(ret) = 1
        /\ \A p \in pH : ret[1][p] = One

C7_Witness ==
    /\ op = "alpha"
    /\ acid.size = 0
    /\ acid.pKa = <<>>
    /\ Len(ret) = 1

\* C8: the naming service is consulted only by a call of formulas with latex or
\* html; a raw call and a rejected call make no call to it.
C8_ServiceOnlyForTypeset ==
    /\ (op = "formulas" /\ arg \notin {"latex", "html"}) => calls = <<>>
    /\ calls # <<>> => (op = "formulas" /\ arg \in {"latex", "html"})

C8_Witness ==
    /\ op = "formulas"
    /\ arg \in {"raw", "bogus"}
    /\ acid.size = 1
    /\ calls = <<>>

\* C9: the unnormalized weight of species k is (Ka[0] * ... * Ka[k-1]) *
\* hydronium^(n-k) at every grid point, with the constants in the supplied order.
C9_NumeratorClosedForm ==
    op = "alpha" =>
        /\ Len(numerators(acid)) = acid.size + 1
        /\ \A k \in 0 .. acid.size : \A p \in pH :
            numerators(acid)[k + 1][p] =
                Rat(1, 10 ^ (RSumInt(SubSeq(acid.pKa, 1, k)) + (acid.size - k) * p))

C9_Witness ==
    /\ op = "alpha"
    /\ acid.size = 2
    /\ acid.pKa = <<2, 0>>
    /\ numerators(acid)[2][1] = Rat(1, 1000)

\* C10: the species at 1-indexed position i has charge 1 - i; its label is 'B',
\* 'HB' or 'H'+idx+'B' (idx = n+1-i) followed by the charge, with 'A' for every 'B'.
C10_ChargeAndLabelShape ==
    (op = "formulas" /\ arg = "raw") =>
        \A i \in 1 .. acid.size + 1 :
            LET idx == acid.size + 1 - i
            IN  /\ ChargeOf(ret[i]) = 1 - i
                /\ BeforeA(ret[i]) =
                       (IF idx = 0 THEN <<>>
                        ELSE IF idx = 1 THEN <<"H">>
                        ELSE <<"H">> \o Digits(idx))
                /\ \A j \in 1 .. Len(ret[i]) : ret[i][j] # "B"

C10_Witness ==
    /\ op = "formulas"
    /\ arg = "raw"
    /\ acid.size = 2
    /\ ChargeOf(ret[3]) = -2
    /\ ChargeOf(ret[1]) = 0

====
